---- MODULE Spec2Model ----
(***************************************************************************)
(* Model of the wrap resolver (pkg/resolver/wrap/resolver.go): parameter   *)
(* validation and the pipeline transformation done by Resolver.Resolve.    *)
(*                                                                         *)
(* Strings that the code takes apart or builds are sequences of tokens     *)
(* (the empty string is <<>>); optional pointers are <<>> (nil) or <<v>>.  *)
(* Task specs reached through pointers live in `heap`, indexed by the      *)
(* position of the pipeline task they were resolved for.                   *)
(***************************************************************************)
EXTENDS Integers, Sequences, FiniteSets, TLC

VARIABLES origParams, conf, storePipelines, storeTasks,
          pc, params, err, fetchLog, pipeline, workspaces,
          taskSpecs, heap, newPipeline, output

vars == <<origParams, conf, storePipelines, storeTasks,
          pc, params, err, fetchLog, pipeline, workspaces,
          taskSpecs, heap, newPipeline, output>>

(* ----------------------------- bounds ---------------------------------- *)
MaxTasks == 2

(* ---------------------------- constants -------------------------------- *)
PipelineRefParam == "pipelineref"
WorkspacesParam == "workspaces"
TargetParam == "target"
WrapperParam == "wrapper"
DefaultBaseImage == <<"ghcr.io/openshift-pipelines/tekton-wrap-pipeline/base:latest">>
DefaultWrapperKey == "default-wrapper"
Placeholder == "{{workspace}}"
CraneImage == "gcr.io/go-containerregistry/crane:debug"

ParamNames == {PipelineRefParam, WorkspacesParam, TargetParam, WrapperParam}

(* ------------------------- Go helper semantics ------------------------- *)
\* m[k] on a Go map[string]string: the zero value "" when k is absent
MapGet(m, k) == IF k \in DOMAIN m THEN m[k] ELSE <<>>

\* m[k] = v on a Go map
MapPut(m, k, v) == [x \in DOMAIN m \cup {k} |-> IF x = k THEN v ELSE m[x]]

\* one name out of the tokens between two separators
SegmentName(seg) == IF seg = <<>> THEN "" ELSE seg[1]

RECURSIVE SplitFrom(_, _, _)
SplitFrom(s, sep, cur) ==
  IF s = <<>> THEN <<SegmentName(cur)>>
  ELSE IF Head(s) = sep THEN <<SegmentName(cur)>> \o SplitFrom(Tail(s), sep, <<>>)
  ELSE SplitFrom(Tail(s), sep, Append(cur, Head(s)))

\* strings.Split(s, sep): always at least one element, "" for the empty string
Split(s, sep) == SplitFrom(s, sep, <<>>)

\* sets.NewString(items...)
NewString(items) == {items[i] : i \in DOMAIN items}

\* strings.ReplaceAll(s, old, new)
ReplaceAll(s, old, new) == [i \in DOMAIN s |-> IF s[i] = old THEN new ELSE s[i]]

\* WorkspaceDeclaration.GetMountPath: the declared path, else /workspace/<name>
GetMountPath(w) == IF w.MountPath # <<>> THEN w.MountPath ELSE <<"/workspace/", w.Name>>

\* var w v1beta1.WorkspaceDeclaration
ZeroDeclaration == [Name |-> "", MountPath |-> <<>>]

(* ------------------------------ errors --------------------------------- *)
NoError == <<>>

\* the store's error for a name it does not hold
NotFound(resource, name) == <<[kind |-> "NotFound", resource |-> resource, name |-> name]>>

\* fmt.Errorf("couldn't fetch taskspec for %s: %v", t.Name, err)
TaskSpecError(name, cause) == <<[kind |-> "TaskSpecFetch", task |-> name, cause |-> cause]>>

(* ------------------------ parameter validation ------------------------- *)
\* the names appended to missingParams, in the order of the four checks
MissingParams(p, c) ==
  (IF WrapperParam \notin DOMAIN p /\ DefaultWrapperKey \notin DOMAIN c
     THEN <<WrapperParam>> ELSE <<>>)
  \o (IF PipelineRefParam \notin DOMAIN p THEN <<PipelineRefParam>> ELSE <<>>)
  \o (IF TargetParam \notin DOMAIN p THEN <<TargetParam>> ELSE <<>>)
  \o (IF WorkspacesParam \notin DOMAIN p THEN <<WorkspacesParam>> ELSE <<>>)

\* populateParamsWithDefaults: the wrapper default is filled in, missingParams
\* is collected and the function returns (params, nil)
populateParamsWithDefaults(p, c) ==
  LET filled == IF WrapperParam \notin DOMAIN p /\ DefaultWrapperKey \in DOMAIN c
                  THEN MapPut(p, WrapperParam, c[DefaultWrapperKey])
                  ELSE p
      missingParams == MissingParams(p, c)
  IN [params |-> filled, err |-> NoError]

(* ---------------------------- the store -------------------------------- *)
UserStep(n) == [Name |-> n, Image |-> "user-image", WorkingDir |-> "", Script |-> <<[op |-> "user"]>>]

\* the Task stored under each name a request's namespace may hold
StoreTemplate(n) ==
  IF n = "a"
    THEN [Steps |-> <<UserStep("clone")>>,
          Workspaces |-> <<[Name |-> "out", MountPath |-> <<"/data">>]>>]
    ELSE [Steps |-> <<UserStep("test"), UserStep("lint")>>,
          Workspaces |-> <<[Name |-> "out", MountPath |-> <<>>],
                           [Name |-> "tmp", MountPath |-> <<>>]>>]

\* an embedded taskSpec
InlineTemplate ==
  [Steps |-> <<UserStep("build")>>,
   Workspaces |-> <<[Name |-> "out", MountPath |-> <<>>],
                    [Name |-> "tmp", MountPath |-> <<"/tmp/ws">>]>>]

StepNames == {"a", "b"}

\* WorkspacePipelineTaskBinding lists of a pipeline task
UsesChoices ==
  { <<[Name |-> "out", Workspace |-> "logs"]>>,
    <<[Name |-> "out", Workspace |-> "src"]>>,
    <<[Name |-> "out", Workspace |-> "src"], [Name |-> "tmp", Workspace |-> "cache"]>>,
    <<[Name |-> "scratch", Workspace |-> "src"]>> }

\* a pipeline task is bound to an embedded spec or to a reference, never both
Bindings ==
  {[TaskRef |-> <<>>, TaskSpec |-> <<InlineTemplate>>]}
  \cup {[TaskRef |-> <<n>>, TaskSpec |-> <<>>] : n \in StepNames}

PipelineTasks ==
  {[Name |-> n, Params |-> <<n>>, Workspaces |-> u, TaskRef |-> b.TaskRef, TaskSpec |-> b.TaskSpec] :
     n \in StepNames, u \in UsesChoices, b \in Bindings}

Pipelines == UNION {[1..k -> PipelineTasks] : k \in 1..MaxTasks}


(* ------------------------- resolveTaskSpecs ---------------------------- *)
\* getTaskSpec(ctx, name): the Task stored under name, or the store's error
getTaskSpec(tasks, name) ==
  IF name \in tasks
    THEN [spec |-> <<StoreTemplate(name)>>, err |-> NoError]
    ELSE [spec |-> <<>>, err |-> NotFound("task", name)]

\* the name resolveTaskSpecs hands to getTaskSpec for a task bound by reference
LookupName(t) == t.Name

\* one iteration of the loop of resolveTaskSpecs over pipelineSpec.Tasks; the
\* spec resolved for the task at position k is the heap object k
ResolveOne(acc, t, k, tasks) ==
  IF t.TaskRef = <<>>
    THEN IF t.TaskSpec = <<>>
           THEN [acc EXCEPT !.panic = TRUE]
           ELSE [acc EXCEPT !.heap = MapPut(acc.heap, k, t.TaskSpec[1]),
                            !.taskSpecs = MapPut(acc.taskSpecs, t.Name, k)]
    ELSE LET r == getTaskSpec(tasks, LookupName(t))
             logged == Append(acc.log, [resource |-> "task", name |-> LookupName(t)])
         IN IF r.err # NoError
              THEN [acc EXCEPT !.log = logged, !.err = TaskSpecError(t.Name, r.err)]
              ELSE [acc EXCEPT !.log = logged,
                               !.heap = MapPut(acc.heap, k, r.spec[1]),
                               !.taskSpecs = MapPut(acc.taskSpecs, t.Name, k)]

RECURSIVE ResolveFrom(_, _, _, _)
ResolveFrom(acc, ts, k, tasks) ==
  IF k > Len(ts) \/ acc.err # NoError \/ acc.panic THEN acc
  ELSE ResolveFrom(ResolveOne(acc, ts[k], k, tasks), ts, k + 1, tasks)

resolveTaskSpecs(ts, tasks) ==
  ResolveFrom([taskSpecs |-> <<>>, heap |-> <<>>, log |-> <<>>, err |-> NoError, panic |-> FALSE],
              ts, 1, tasks)

(* --------------------------- script generation ------------------------- *)
Shebang == [op |-> "#!/busybox/sh -e"]

RECURSIVE FindFrom(_, _, _, _)
FindFrom(decls, name, j, w) ==
  IF j > Len(decls) THEN w
  ELSE FindFrom(decls, name, j + 1, IF decls[j].Name = name THEN decls[j] ELSE w)

\* the declaration of the task spec whose name is the binding's name: the last
\* match of the loop, the zero declaration when there is none
FindDeclaration(decls, name) == FindFrom(decls, name, 1, ZeroDeclaration)

\* wtargetimages: one target image per requested workspace
TargetImages(ws, target) == [w \in ws |-> ReplaceAll(target, Placeholder, w)]

RECURSIVE ImportFrom(_, _, _, _, _, _)
ImportFrom(uses, j, ws, images, decls, acc) ==
  IF j > Len(uses) THEN acc
  ELSE LET pw == uses[j]
       IN IF pw.Workspace \in ws
            THEN LET w == FindDeclaration(decls, pw.Name)
                     base == images[pw.Workspace]
                 IN ImportFrom(uses, j + 1, ws, images, decls,
                      [script |-> Append(acc.script,
                                    [op |-> "import", image |-> base, path |-> GetMountPath(w)]),
                       baseimage |-> base])
            ELSE ImportFrom(uses, j + 1, ws, images, decls, acc)

\* the script of the import-workspace step and the value baseimage is left with
ImportScript(uses, ws, images, decls, baseimage) ==
  ImportFrom(uses, 1, ws, images, decls, [script |-> <<Shebang>>, baseimage |-> baseimage])

RECURSIVE ExportFrom(_, _, _, _, _, _, _)
ExportFrom(uses, j, ws, images, decls, first, acc) ==
  IF j > Len(uses) THEN acc
  ELSE LET pw == uses[j]
       IN IF pw.Workspace \in ws
            THEN LET w == FindDeclaration(decls, pw.Name)
                     base == IF first THEN acc.baseimage ELSE images[pw.Workspace]
                 IN ExportFrom(uses, j + 1, ws, images, decls, first,
                      [script |-> Append(acc.script,
                                    [op |-> "export", path |-> GetMountPath(w),
                                     base |-> base, target |-> images[pw.Workspace]]),
                       baseimage |-> base])
            ELSE ExportFrom(uses, j + 1, ws, images, decls, first, acc)

\* the script of the export-workspace step; first is i == 0
ExportScript(uses, ws, images, decls, first, baseimage) ==
  ExportFrom(uses, 1, ws, images, decls, first, [script |-> <<Shebang>>, baseimage |-> baseimage])

ImportStep(script) ==
  [Name |-> "import-workspace", Image |-> CraneImage, WorkingDir |-> "/", Script |-> script]

ExportStep(script) ==
  [Name |-> "export-workspace", Image |-> CraneImage, WorkingDir |-> "/", Script |-> script]

(* ------------------------ the transformation loop ---------------------- *)
\* pipeline.DeepCopy(): the tasks of the copy share nothing with the original
DeepCopy(ts) == ts

\* HasAny as it would be if the skip of lines 132-135 never applied
HasAnyAlways(ws, t) == TRUE

\* workspaces.HasAny(taskWorkspaces...)
HasAny(ws, t) == \E j \in DOMAIN t.Workspaces : t.Workspaces[j].Workspace \in ws

\* the import step goes in front for every task but the first (i != 0)
WithImport(i) == i # 1

\* s.Steps after the injections of one iteration
InjectSteps(steps, i, imp, exp) ==
  Append((IF WithImport(i) THEN <<ImportStep(imp)>> ELSE <<>>) \o steps, ExportStep(exp))

\* SetInline as it would be if the task were rebuilt from its name and spec only
SetInlineRebuilt(t, s) ==
  IF t.TaskSpec = <<>>
    THEN [panic |-> TRUE, task |-> [t EXCEPT !.TaskRef = <<>>]]
    ELSE [panic |-> FALSE,
          task |-> [t EXCEPT !.TaskRef = <<>>, !.TaskSpec = <<s>>, !.Params = <<>>, !.Workspaces = <<>>]]

\* newPipeline.Spec.Tasks[i].TaskRef = nil, then the store through TaskSpec
SetInline(t, s) ==
  IF t.TaskSpec = <<>>
    THEN [panic |-> TRUE, task |-> [t EXCEPT !.TaskRef = <<>>]]
    ELSE [panic |-> FALSE, task |-> [t EXCEPT !.TaskRef = <<>>, !.TaskSpec = <<s>>]]

\* one iteration of the loop over newPipeline.Spec.Tasks (i counts from 1);
\* s is the pointer taskSpecs[t.Name]
TransformOne(acc, i, ws, images) ==
  LET t == acc.tasks[i]
  IN IF ~HasAny(ws, t) THEN acc
     ELSE LET s == acc.taskSpecs[t.Name]
              spec == acc.heap[s]
              imp == IF WithImport(i)
                       THEN ImportScript(t.Workspaces, ws, images, spec.Workspaces, acc.baseimage)
                       ELSE [script |-> <<>>, baseimage |-> acc.baseimage]
              exp == ExportScript(t.Workspaces, ws, images, spec.Workspaces, i = 1, imp.baseimage)
              mutated == [spec EXCEPT !.Steps = InjectSteps(spec.Steps, i, imp.script, exp.script)]
              set == SetInline(t, mutated)
          IN [acc EXCEPT !.heap = MapPut(acc.heap, s, mutated),
                         !.baseimage = exp.baseimage,
                         !.tasks = [acc.tasks EXCEPT ![i] = set.task],
                         !.panic = set.panic]

RECURSIVE TransformFrom(_, _, _, _)
TransformFrom(acc, i, ws, images) ==
  IF i > Len(acc.tasks) \/ acc.panic THEN acc
  ELSE TransformFrom(TransformOne(acc, i, ws, images), i + 1, ws, images)

\* lines 121-190 of Resolve
TransformTasks(ts, specs, objects, ws, target) ==
  TransformFrom([tasks |-> DeepCopy(ts), taskSpecs |-> specs, heap |-> objects,
                 baseimage |-> DefaultBaseImage, panic |-> FALSE],
                1, ws, TargetImages(ws, target))

PipelineName == <<"simple-pipeline">>

ParamValue(n) ==
  CASE n = PipelineRefParam -> PipelineName
    [] n = WorkspacesParam -> <<"src", ",", "cache">>
    [] n = TargetParam -> <<"registry/run-", Placeholder, ":latest">>
    [] OTHER -> <<"wrapper-image">>

Requests == {[n \in S |-> ParamValue(n)] : S \in SUBSET ParamNames}

Configs == {<<>>, [k \in {DefaultWrapperKey} |-> <<"default-wrapper-image">>]}

Init ==
  /\ origParams \in Requests
  /\ conf \in Configs
  /\ storePipelines \in {<<>>} \cup {[k \in {PipelineName} |-> p] : p \in Pipelines}
  /\ storeTasks \in SUBSET StepNames
  /\ pc = "start"
  /\ params = <<>>
  /\ err = NoError
  /\ fetchLog = <<>>
  /\ pipeline = <<>>
  /\ workspaces = {}
  /\ taskSpecs = <<>>
  /\ heap = <<>>
  /\ newPipeline = <<>>
  /\ output = <<>>

(* ------------------------------ handlers ------------------------------- *)
request == <<origParams, conf, storePipelines, storeTasks>>
working == <<pipeline, workspaces, taskSpecs, heap, newPipeline, output>>

\* Resolver.ValidateParams
ValidateParams ==
  /\ pc = "start"
  /\ LET r == populateParamsWithDefaults(origParams, conf)
     IN /\ params' = r.params
        /\ err' = r.err
  /\ pc' = "validated"
  /\ UNCHANGED <<request, working, fetchLog>>

\* Resolve, lines 98-104
ResolvePopulate ==
  /\ pc = "start"
  /\ LET r == populateParamsWithDefaults(origParams, conf)
     IN IF r.err # NoError
          THEN /\ err' = r.err
               /\ pc' = "failed"
               /\ UNCHANGED params
          ELSE /\ params' = r.params
               /\ pc' = "get"
               /\ UNCHANGED err
  /\ UNCHANGED <<request, working, fetchLog>>

\* Resolve, lines 106-112
ResolveGetPipeline ==
  /\ pc = "get"
  /\ LET name == MapGet(params, PipelineRefParam)
     IN /\ fetchLog' = Append(fetchLog, [resource |-> "pipeline", name |-> name])
        /\ IF name # <<>> /\ name \in DOMAIN storePipelines
             THEN /\ pipeline' = storePipelines[name]
                  /\ workspaces' = NewString(Split(MapGet(params, WorkspacesParam), ","))
                  /\ pc' = "resolve"
                  /\ UNCHANGED err
             ELSE /\ err' = NotFound("pipeline", name)
                  /\ pc' = "failed"
                  /\ UNCHANGED <<pipeline, workspaces>>
  /\ UNCHANGED <<request, params, taskSpecs, heap, newPipeline, output>>

\* Resolve, lines 114-119
ResolveTaskSpecs ==
  /\ pc = "resolve"
  /\ LET r == resolveTaskSpecs(pipeline, storeTasks)
     IN /\ fetchLog' = fetchLog \o r.log
        /\ IF r.panic
             THEN /\ pc' = "panicked"
                  /\ UNCHANGED <<err, taskSpecs, heap>>
             ELSE IF r.err # NoError
               THEN /\ err' = r.err
                    /\ pc' = "failed"
                    /\ UNCHANGED <<taskSpecs, heap>>
               ELSE /\ taskSpecs' = r.taskSpecs
                    /\ heap' = r.heap
                    /\ pc' = "transform"
                    /\ UNCHANGED err
  /\ UNCHANGED <<request, params, pipeline, workspaces, newPipeline, output>>

\* Resolve, lines 121-190
ResolveTransform ==
  /\ pc = "transform"
  /\ LET r == TransformTasks(pipeline, taskSpecs, heap, workspaces, MapGet(params, TargetParam))
     IN /\ heap' = r.heap
        /\ newPipeline' = r.tasks
        /\ pc' = IF r.panic THEN "panicked" ELSE "marshal"
  /\ UNCHANGED <<request, params, err, fetchLog, pipeline, workspaces, taskSpecs, output>>

\* Resolve, lines 192-203
ResolveMarshal ==
  /\ pc = "marshal"
  /\ output' = <<[Kind |-> "Pipeline", APIVersion |-> "tekton.dev/v1beta1",
                  Tasks |-> newPipeline,
                  PipelineRef |-> MapGet(params, PipelineRefParam)]>>
  /\ pc' = "done"
  /\ UNCHANGED <<request, params, err, fetchLog, pipeline, workspaces, taskSpecs, heap, newPipeline>>

Next ==
  \/ ValidateParams
  \/ ResolvePopulate
  \/ ResolveGetPipeline
  \/ ResolveTaskSpecs
  \/ ResolveTransform
  \/ ResolveMarshal

Spec == Init /\ [][Next]_vars

(* ======================= properties of the resolver ==================== *)
\* the parameters a request leaves without a value
Absent ==
  {n \in {PipelineRefParam, WorkspacesParam, TargetParam} : n \notin DOMAIN origParams}
  \cup (IF WrapperParam \notin DOMAIN origParams /\ DefaultWrapperKey \notin DOMAIN conf
          THEN {WrapperParam} ELSE {})

\* the workspace names the request asks to rewrite
Requested ==
  IF WorkspacesParam \in DOMAIN origParams
    THEN {origParams[WorkspacesParam][j] : j \in DOMAIN origParams[WorkspacesParam]} \ {","}
    ELSE {}

Participates(t) == \E j \in DOMAIN t.Workspaces : t.Workspaces[j].Workspace \in Requested

Fetched == pc \in {"resolve", "transform", "marshal", "done", "panicked"} \/ (pc = "failed" /\ pipeline # <<>>)

Emitted == pc = "done" /\ output # <<>>

StepsNamed(steps, n) == {j \in DOMAIN steps : steps[j].Name = n}

\* C1: validation fails with a MissingParameter error naming every absent
\* parameter exactly when some parameter is absent, and succeeds otherwise.
C1_MissingParameterListed ==
  pc = "validated" =>
    IF Absent = {} THEN err = NoError
    ELSE /\ err # NoError
         /\ err[1].kind = "MissingParameter"
         /\ NewString(err[1].missing) = Absent

\* C2: a run of Resolve on a request with an absent parameter never looks
\* anything up in the store.
C2_NoFetchWhenInvalid == Absent # {} => fetchLog = <<>>

\* the steps of the fetched pipeline whose referenced template the store lacks
DanglingSteps ==
  {k \in DOMAIN pipeline : pipeline[k].TaskRef # <<>> /\ pipeline[k].TaskRef[1] \notin storeTasks}

\* C3: when a step references a template the store does not hold, Resolve ends
\* in an error naming such a step, before any sub-step list is touched and
\* without an output document.
C3_DanglingReferenceFails ==
  (Fetched /\ pc # "resolve" /\ DanglingSteps # {}) =>
    /\ pc = "failed"
    /\ err # NoError
    /\ err[1].kind = "TaskSpecFetch"
    /\ \E k \in DanglingSteps : err[1].task = pipeline[k].Name
    /\ newPipeline = <<>>
    /\ output = <<>>

\* the sub-steps the step at position k of the fetched pipeline starts from
OriginalSteps(k) ==
  IF pipeline[k].TaskRef = <<>> THEN pipeline[k].TaskSpec[1].Steps
  ELSE StoreTemplate(pipeline[k].TaskRef[1]).Steps

\* C4: in the output, a step using a requested workspace holds one import
\* sub-step (only when it is not the first step), then its original sub-steps in
\* order, then one export sub-step.
C4_ImportOriginalExport ==
  Emitted =>
    \A k \in DOMAIN pipeline :
      Participates(pipeline[k]) =>
        LET t == output[1].Tasks[k]
            steps == t.TaskSpec[1].Steps
            lead == IF k > 1 THEN 1 ELSE 0
            orig == OriginalSteps(k)
        IN /\ t.TaskSpec # <<>>
           /\ Len(steps) = lead + Len(orig) + 1
           /\ (k > 1 => steps[1].Name = "import-workspace")
           /\ SubSeq(steps, lead + 1, lead + Len(orig)) = orig
           /\ steps[Len(steps)].Name = "export-workspace"

\* C5: a step that uses no requested workspace is emitted exactly as it was
\* fetched: same sub-steps, same binding, nothing injected.
C5_UntouchedWhenNotParticipating ==
  Emitted =>
    \A k \in DOMAIN pipeline :
      ~Participates(pipeline[k]) =>
        output[1].Tasks[k] = storePipelines[PipelineName][k]

C5_Witness ==
  /\ Emitted
  /\ \E k \in DOMAIN pipeline :
       /\ ~Participates(pipeline[k])
       /\ pipeline[k].TaskSpec # <<>>
  /\ \E k \in DOMAIN pipeline :
       /\ Participates(pipeline[k])
       /\ StepsNamed(output[1].Tasks[k].TaskSpec[1].Steps, "export-workspace") # {}

\* C6: the output has the steps of the input, as many and in the same order,
\* each with its name, parameters and workspace uses.
C6_StepsPreserved ==
  Emitted =>
    /\ Len(output[1].Tasks) = Len(storePipelines[PipelineName])
    /\ \A k \in DOMAIN output[1].Tasks :
         LET t == output[1].Tasks[k]
             o == storePipelines[PipelineName][k]
         IN /\ t.Name = o.Name
            /\ t.Params = o.Params
            /\ t.Workspaces = o.Workspaces

C6_Witness ==
  /\ Emitted
  /\ Len(pipeline) >= 2
  /\ pipeline[1].Name # pipeline[2].Name
  /\ Participates(pipeline[1])
  /\ Participates(pipeline[2])
  /\ output[1].Tasks[2].TaskSpec[1].Steps # pipeline[2].TaskSpec[1].Steps

\* C7: Resolve completes on a step bound by reference that uses a requested
\* workspace, and every step of an output document is bound inline.
C7_AllBindingsInline ==
  /\ pc # "panicked"
  /\ Emitted =>
       \A k \in DOMAIN output[1].Tasks :
         /\ output[1].Tasks[k].TaskRef = <<>>
         /\ output[1].Tasks[k].TaskSpec # <<>>

\* C8: the template resolved for a step bound by reference is the one the
\* store holds under the referenced name, and that is the name it is asked for.
C8_LookupByReferencedName ==
  pc = "transform" =>
    \A k \in DOMAIN pipeline :
      pipeline[k].TaskRef # <<>> =>
        /\ heap[k] = StoreTemplate(pipeline[k].TaskRef[1])
        /\ \E j \in DOMAIN fetchLog :
             fetchLog[j] = [resource |-> "task", name |-> pipeline[k].TaskRef[1]]

\* the uses of a requested workspace whose step-local name the step's own
\* template does not declare
UndeclaredUses ==
  UNION {{<<k, j>> : j \in {u \in DOMAIN pipeline[k].Workspaces :
                              /\ pipeline[k].Workspaces[u].Workspace \in Requested
                              /\ pipeline[k].TaskSpec # <<>>
                              /\ \A d \in DOMAIN pipeline[k].TaskSpec[1].Workspaces :
                                   pipeline[k].TaskSpec[1].Workspaces[d].Name
                                     # pipeline[k].Workspaces[u].Name}} :
         k \in DOMAIN pipeline}

\* C9: a use of a requested workspace under a step-local name the template
\* does not declare ends the transformation in an error, with no output.
C9_UndeclaredWorkspaceFails ==
  (Fetched /\ UndeclaredUses # {}) => pc \notin {"marshal", "done"} /\ output = <<>>

\* C10: every step of the output that uses a requested workspace holds at most
\* one import and exactly one export sub-step: nothing injected for another step.
C10_NoLeakBetweenSteps ==
  Emitted =>
    \A k \in DOMAIN pipeline :
      Participates(pipeline[k]) =>
        LET steps == output[1].Tasks[k].TaskSpec[1].Steps
        IN /\ Cardinality(StepsNamed(steps, "import-workspace")) <= 1
           /\ Cardinality(StepsNamed(steps, "export-workspace")) = 1

====
